---- MODULE Spec2Model ----
(***************************************************************************)
(* ssh_config.py: provisioning of key-based SSH access for a non-root user *)
(* on a fleet of hosts.  The module models main(), the key-material steps, *)
(* the address set builder, the process pool of                           *)
(* configure_target_concurrent and the per-target session of              *)
(* configure_target.                                                       *)
(*                                                                         *)
(* A Python str is a sequence of tokens (each token a TLA+ string): the    *)
(* whitespace tokens "SP", "NL", "TAB" and text tokens.  A path is the     *)
(* sequence of its "."-separated components.                               *)
(***************************************************************************)
EXTENDS Integers, Sequences, FiniteSets, TLC

VARIABLES
    pc,            \* position of main() (the line it is about to execute)
    opts,          \* docopt result (line 192)
    fs,            \* local file system: path -> [exists, lines]
    fs0,           \* the file system as it was when main() started
    keygen_calls,  \* paths ssh-keygen was invoked on (line 226), in order
    targets,       \* main's local `targets`, a set, or Unbound
    ssh_pubkey,    \* main's local `ssh_pubkey` (a path)
    pubkey_str,    \* main's local `pubkey_str`
    cmds,          \* the BashCommands object (line 233)
    error,         \* the exception caught at line 249, or "none"
    report,        \* what line 248 printed: <<>> before, <<results>> after
    workers,       \* max_workers of the pool (lines 177-180)
    sess,          \* target -> position of its configure_target call
    probe,         \* target -> what bash_validate_nonroot_user returned
    rlog,          \* target -> commands the remote host received, in order
    fault,         \* target -> the exception raised inside its call, if any
    login,         \* target -> the results of its client.connect calls, in order
    host,          \* target -> the state of the remote host
    run,           \* which run of the program this is, counted from 1
    provisioned,   \* hosts on which an earlier run created the user
    future,        \* target -> the Future of its submitted call
    yielded,       \* targets whose future the loop of lines 185-187 has handled
    results_list   \* configure_target_concurrent's local `results_list`

vars == <<pc, opts, fs, fs0, keygen_calls, targets, ssh_pubkey, pubkey_str,
          cmds, error, report, workers, sess, probe, rlog, fault, login,
          host, run, provisioned, future, yielded, results_list>>

mainVars == <<opts, fs, fs0, keygen_calls, targets, ssh_pubkey, pubkey_str, cmds>>
poolVars == <<workers, sess, probe, rlog, fault, login, host, future, yielded,
             results_list>>
runVars == <<run, provisioned>>

----------------------------------------------------------------------------
(* Python values *)

\* Python's False, as validate_ipv4 returns it; no str equals it
PyFalse == <<"False">>

\* Python's None, as a function falling off its end returns it
PyNone == <<"None">>

\* an option docopt left unset (None)
Unset == <<>>

\* a local variable main() has not assigned yet
Unbound == {<<"unbound">>}

Truthy(v) == v # PyFalse /\ v # PyNone /\ v # <<>>

RECURSIVE LStrip(_, _)
LStrip(s, c) ==
    IF s # <<>> /\ Head(s) = c THEN LStrip(Tail(s), c) ELSE s

RECURSIVE RStrip(_, _)
RStrip(s, c) ==
    IF s # <<>> /\ s[Len(s)] = c THEN RStrip(SubSeq(s, 1, Len(s) - 1), c) ELSE s

\* str.strip(c) for a single character c
Strip(s, c) == RStrip(LStrip(s, c), c)

\* str.strip(): all leading and trailing whitespace
RECURSIVE StripWS(_)
StripWS(s) ==
    IF s # <<>> /\ Head(s) \in {"SP", "NL", "TAB"} THEN StripWS(Tail(s))
    ELSE IF s # <<>> /\ s[Len(s)] \in {"SP", "NL", "TAB"}
         THEN StripWS(SubSeq(s, 1, Len(s) - 1))
         ELSE s

----------------------------------------------------------------------------
(* Address Set Builder: validate_ipv4, generate_list_from_file *)

\* the decimal octets
Octets == {ToString(i) : i \in 0..255}

\* ipaddress.ip_address(ip) does not raise: four octets
IsAddress(ip) == Len(ip) = 4 /\ \A i \in 1..4 : ip[i] \in Octets

validate_ipv4(ip) == IF IsAddress(ip) THEN ip ELSE PyFalse

LineIp(line) == Strip(Strip(line, "NL"), "SP")

generate_list_from_file_lines(lines) ==
    {lines[i] : i \in {j \in 1..Len(lines) : Truthy(validate_ipv4(LineIp(lines[j])))}}

generate_list_from_file(lines) ==
    {LineIp(lines[i]) : i \in {j \in 1..Len(lines) : Truthy(validate_ipv4(LineIp(lines[j])))}}

----------------------------------------------------------------------------
(* Key material: paths, read_pubkey_file *)

\* ".pub" in path: some component after the first begins with "pub"
HasPubExt(p) == \E i \in 2..Len(p) : p[i] = "pub"

\* path.split(".")[0]
SplitDot0(p) == <<p[1]>>

\* path + ".pub"
AddPubExt(p) == p \o <<"pub">>

HasRsa(line) == \E i \in 1..Len(line) : line[i] = "ssh-rsa"

\* read_pubkey_file: only the first line of the file is looked at; a file
\* with no line at all falls off the loop and returns None
read_pubkey_file(lines) ==
    IF lines = <<>> THEN [raised |-> FALSE, value |-> PyNone]
    ELSE IF HasRsa(lines[1]) THEN [raised |-> FALSE, value |-> StripWS(lines[1])]
    ELSE [raised |-> TRUE, value |-> PyNone]

----------------------------------------------------------------------------
(* Command Set Builder: BashCommands *)

Steps == <<"validateUser", "createUser", "chkSshDirMakeDir",
           "chkAuthKeysFileMakeFile", "addPubKeyToAuth", "disableRootSsh",
           "disablePassAuthSsh", "restartSshService">>

StepNo(name) == CHOOSE i \in 1..Len(Steps) : Steps[i] = name

BashCommands(nonroot_user, pubkey) ==
    [validateUser |-> [op |-> "id -u", user |-> nonroot_user,
                       path |-> <<>>, text |-> <<>>],
     createUser |-> [op |-> "useradd && usermod -aG sudo && echo >> sudoers",
                     user |-> nonroot_user, path |-> <<"etc", "sudoers">>,
                     text |-> <<>>],
     chkSshDirMakeDir |-> [op |-> "if [ ! -d ] mkdir", user |-> nonroot_user,
                           path |-> <<"home", nonroot_user, ".ssh">>,
                           text |-> <<>>],
     chkAuthKeysFileMakeFile |->
         [op |-> "if [ ! -f ] touch && chown && chmod 600", user |-> nonroot_user,
          path |-> <<"home", nonroot_user, ".ssh", "authorization_keys">>,
          text |-> <<>>],
     addPubKeyToAuth |-> [op |-> "echo >>", user |-> nonroot_user,
                          path |-> <<"home", nonroot_user, ".ssh", "authorized_keys">>,
                          text |-> pubkey],
     disableRootSsh |-> [op |-> "sed PermitRootLogin no", user |-> "",
                         path |-> <<"etc", "ssh", "sshd_config">>, text |-> <<>>],
     disablePassAuthSsh |-> [op |-> "sed PasswordAuthentication no", user |-> "",
                             path |-> <<"etc", "ssh", "sshd_config">>, text |-> <<>>],
     restartSshService |-> [op |-> "service ssh restart", user |-> "",
                            path |-> <<>>, text |-> <<>>]]

NoCmds == [op |-> "unbuilt"]

----------------------------------------------------------------------------
(* Inputs: command line and local files *)

HostsPath == <<"hosts", "txt">>
KeyPath == <<"id_rsa">>
PubPath == <<"id_rsa", "pub">>
\* "./id_rsa", the default of --ssh_new_key
DefaultNewKey == <<"", "/id_rsa">>

FsPaths == {HostsPath, KeyPath, PubPath, DefaultNewKey, AddPubExt(DefaultNewKey)}

Absent == [exists |-> FALSE, lines |-> <<>>]
File(lines) == [exists |-> TRUE, lines |-> lines]

isfile(f, p) == p \in DOMAIN f /\ f[p].exists

AddrA == <<"10", "0", "0", "5">>
AddrB == <<"10", "0", "0", "6">>
AddrBad == <<"10", "0", "0", "256">>

HostLines == {AddrA \o <<"NL">>, <<"SP">> \o AddrA \o <<"SP", "NL">>,
              AddrB \o <<"NL">>, AddrBad \o <<"NL">>}

\* longest address file of the inputs, in lines
MaxLines == 2

HostFiles == UNION {[1..n -> HostLines] : n \in 0..MaxLines}

RsaLine == <<"ssh-rsa", "SP", "AAAA", "SP", "me@host", "NL">>
JunkLine == <<"#", "SP", "comment", "NL">>
NewRsaLine == <<"ssh-rsa", "SP", "BBBB", "SP", "me@host", "NL">>
PrivateKey == <<<<"-----BEGIN", "SP", "PRIVATE", "SP", "KEY-----", "NL">>>>

PubContents == {<<>>, <<RsaLine>>, <<JunkLine>>, <<JunkLine, RsaLine>>,
                <<RsaLine, JunkLine>>}

\* the address part of the command line: --rhost or --rhost_file
HostInputs ==
    {[rhost |-> a, rhost_file |-> Unset, hosts |-> Absent] : a \in {AddrA, AddrBad}}
    \cup {[rhost |-> Unset, rhost_file |-> HostsPath, hosts |-> Absent]}
    \cup {[rhost |-> Unset, rhost_file |-> HostsPath, hosts |-> File(l)] : l \in HostFiles}

\* the key part of the command line with the key files it meets:
\* --ssh_pubkey, or --ssh_new_key
KeyInputs ==
    {[ssh_pubkey |-> p, ssh_new_key |-> DefaultNewKey, key |-> Absent, pub |-> Absent]
        : p \in {KeyPath, PubPath}}
    \cup {[ssh_pubkey |-> p, ssh_new_key |-> DefaultNewKey,
           key |-> File(PrivateKey), pub |-> File(c)]
        : p \in {KeyPath, PubPath}, c \in PubContents}
    \cup {[ssh_pubkey |-> Unset, ssh_new_key |-> p, key |-> k, pub |-> c]
        : p \in {KeyPath, PubPath}, k \in {Absent, File(PrivateKey)},
          c \in {Absent, File(<<RsaLine>>)}}

\* the usual key input: an existing, well-formed public key
PlainKey == [ssh_pubkey |-> PubPath, ssh_new_key |-> DefaultNewKey,
             key |-> File(PrivateKey), pub |-> File(<<RsaLine>>)]

\* the usual address input: one valid --rhost
PlainHost == [rhost |-> AddrA, rhost_file |-> Unset, hosts |-> Absent]

Inputs == (HostInputs \X {PlainKey}) \cup ({PlainHost} \X KeyInputs)

Opts(h, k) ==
    [rhost |-> h.rhost, rhost_file |-> h.rhost_file, nonroot_user |-> "deploy",
     login_user |-> "root", ssh_pubkey |-> k.ssh_pubkey, ssh_new_key |-> k.ssh_new_key]

Fs(h, k) ==
    [p \in FsPaths |->
        IF p = HostsPath THEN h.hosts
        ELSE IF p = KeyPath THEN k.key
        ELSE IF p = PubPath THEN k.pub
        ELSE Absent]

----------------------------------------------------------------------------
(* Init: main() is about to run line 207 *)

NoTargets == <<>>

Init ==
    /\ \E in \in Inputs :
          /\ opts = Opts(in[1], in[2])
          /\ fs = Fs(in[1], in[2])
    /\ fs0 = fs
    /\ pc = "L207"
    /\ keygen_calls = <<>>
    /\ targets = Unbound
    /\ ssh_pubkey = Unset
    /\ pubkey_str = Unset
    /\ cmds = NoCmds
    /\ error = "none"
    /\ report = <<>>
    /\ workers = 0
    /\ sess = NoTargets
    /\ probe = NoTargets
    /\ rlog = NoTargets
    /\ fault = NoTargets
    /\ login = NoTargets
    /\ host = NoTargets
    /\ run = 1
    /\ provisioned = {}
    /\ future = NoTargets
    /\ yielded = {}
    /\ results_list = <<>>

\* raise inside main's try: caught at line 249, logged, main returns
Raise(exc) ==
    /\ error' = exc
    /\ pc' = "done"

----------------------------------------------------------------------------
(* main(), lines 207-238 *)

\* lines 207-210
BoundTargetsElseEmpty(o, f) ==
    IF Truthy(o.rhost) THEN {validate_ipv4(o.rhost)}
    ELSE IF Truthy(o.rhost_file) /\ isfile(f, o.rhost_file)
         THEN generate_list_from_file(f[o.rhost_file].lines)
         ELSE {}

BoundTargets(o, f) ==
    IF Truthy(o.rhost) THEN {validate_ipv4(o.rhost)}
    ELSE IF Truthy(o.rhost_file) /\ isfile(f, o.rhost_file)
         THEN generate_list_from_file(f[o.rhost_file].lines)
         ELSE Unbound

BindTargets ==
    /\ pc = "L207"
    /\ targets' = BoundTargets(opts, fs)
    /\ pc' = "L213"
    /\ UNCHANGED <<opts, fs, fs0, keygen_calls, ssh_pubkey, pubkey_str, cmds,
                   error, report>>
    /\ UNCHANGED poolVars
    /\ UNCHANGED runVars

\* lines 214-216: the path of the supplied public key
SuppliedPubPath(p) == IF ~HasPubExt(p) THEN AddPubExt(p) ELSE p

\* lines 220-222: the path the new key is generated at
NewKeyPath(p) == IF HasPubExt(p) THEN SplitDot0(p) ELSE p

\* line 223: the guard against overwriting a key file
KeyFileExists(f, p) == isfile(f, p)

\* lines 213-224
ChooseKey ==
    /\ pc = "L213"
    /\ IF Truthy(opts.ssh_pubkey)
       THEN IF ~isfile(fs, SuppliedPubPath(opts.ssh_pubkey))
            THEN Raise("BashException: does not exist") /\ UNCHANGED ssh_pubkey
            ELSE /\ ssh_pubkey' = SuppliedPubPath(opts.ssh_pubkey)
                 /\ pc' = "L230"
                 /\ UNCHANGED error
       ELSE IF KeyFileExists(fs, NewKeyPath(opts.ssh_new_key))
            THEN Raise("BashException: already exists") /\ UNCHANGED ssh_pubkey
            ELSE /\ ssh_pubkey' = NewKeyPath(opts.ssh_new_key)
                 /\ pc' = "L226"
                 /\ UNCHANGED error
    /\ UNCHANGED <<opts, fs, fs0, keygen_calls, targets, pubkey_str, cmds, report>>
    /\ UNCHANGED poolVars
    /\ UNCHANGED runVars

\* ssh-keygen -f path: writes the key pair at path and path.pub
KeygenWrites(f, p) ==
    [q \in DOMAIN f |->
        IF q = p THEN File(PrivateKey)
        ELSE IF q = AddPubExt(p) THEN File(<<NewRsaLine>>)
        ELSE f[q]]

\* line 226: execute_local_commands(sshKeygen); stderr output raises
Keygen ==
    /\ pc = "L226"
    /\ keygen_calls' = Append(keygen_calls, ssh_pubkey)
    /\ \E err \in BOOLEAN :
          IF err
          THEN Raise("BashException: local command") /\ UNCHANGED fs
          ELSE /\ fs' = KeygenWrites(fs, ssh_pubkey)
               /\ pc' = "L227"
               /\ UNCHANGED error
    /\ UNCHANGED <<opts, fs0, targets, ssh_pubkey, pubkey_str, cmds, report>>
    /\ UNCHANGED poolVars
    /\ UNCHANGED runVars

\* lines 227-228: chmod 400, then ssh_pubkey = ssh_pubkey + ".pub"
Chmod ==
    /\ pc = "L227"
    /\ \E err \in BOOLEAN :
          IF err
          THEN Raise("BashException: local command") /\ UNCHANGED ssh_pubkey
          ELSE /\ ssh_pubkey' = AddPubExt(ssh_pubkey)
               /\ pc' = "L230"
               /\ UNCHANGED error
    /\ UNCHANGED <<opts, fs, fs0, keygen_calls, targets, pubkey_str, cmds, report>>
    /\ UNCHANGED poolVars
    /\ UNCHANGED runVars

\* line 230
ReadKey ==
    /\ pc = "L230"
    /\ IF ~isfile(fs, ssh_pubkey)
       THEN Raise("FileNotFoundError") /\ UNCHANGED pubkey_str
       ELSE IF read_pubkey_file(fs[ssh_pubkey].lines).raised
            THEN Raise("BashException: no public key") /\ UNCHANGED pubkey_str
            ELSE /\ pubkey_str' = read_pubkey_file(fs[ssh_pubkey].lines).value
                 /\ pc' = "L233"
                 /\ UNCHANGED error
    /\ UNCHANGED <<opts, fs, fs0, keygen_calls, targets, ssh_pubkey, cmds, report>>
    /\ UNCHANGED poolVars
    /\ UNCHANGED runVars

\* lines 232-237
BuildPlan ==
    /\ pc = "L233"
    /\ cmds' = BashCommands(opts.nonroot_user, pubkey_str)
    /\ pc' = "L238"
    /\ UNCHANGED <<opts, fs, fs0, keygen_calls, targets, ssh_pubkey, pubkey_str,
                   error, report>>
    /\ UNCHANGED poolVars
    /\ UNCHANGED runVars

\* line 238: password_prompt returns once the two entries match
PasswordPrompt ==
    /\ pc = "L238"
    /\ pc' = "L239"
    /\ UNCHANGED <<error, report>>
    /\ UNCHANGED mainVars
    /\ UNCHANGED poolVars
    /\ UNCHANGED runVars

----------------------------------------------------------------------------
(* Fleet Orchestrator: configure_target_concurrent, lines 174-188 *)

\* lines 177-180
PoolWorkersUncapped(n) == n

PoolWorkers(n) == IF n > 20 THEN 20 ELSE n

Outcome(t, status) == [Target |-> t, Status |-> status]

\* what a call that returns nothing would hand back (None)
NoOutcome == Outcome(PyNone, "None")

NoFault == [at |-> "none", exc |-> ""]

Pending == [state |-> "pending", exc |-> "", result |-> NoOutcome]
Returned(r) == [state |-> "finished", exc |-> "", result |-> r]
Raised(exc) == [state |-> "finished", exc |-> exc, result |-> NoOutcome]

\* the state of a host no run has touched
FreshHost(user) ==
    [user |-> user, sshdir |-> FALSE, files |-> {}, keys |-> {},
     root_login |-> TRUE, pass_auth |-> TRUE, restarted |-> FALSE]

\* the hosts as a run finds them: as earlier runs left them, or fresh
HostsMet(h, T) ==
    {g \in [T -> {FreshHost(u) : u \in BOOLEAN} \cup {h[t] : t \in DOMAIN h}] :
        \A t \in T : IF t \in DOMAIN h THEN g[t] = h[t] ELSE g[t] \in {FreshHost(u) : u \in BOOLEAN}}

HasFile(h, path) == \E f \in h.files : f.path = path

\* what the command of a step that wrote nothing to stderr did on the host
\* (lines 43-51); res # "ok": the command changed nothing
Effect(h, name, res) ==
    IF res # "ok" THEN h
    ELSE CASE name = "createUser" -> [h EXCEPT !.user = TRUE]
           [] name = "chkSshDirMakeDir" -> [h EXCEPT !.sshdir = TRUE]
           [] name = "chkAuthKeysFileMakeFile" ->
                 IF HasFile(h, cmds.chkAuthKeysFileMakeFile.path) THEN h
                 ELSE [h EXCEPT !.files = @ \cup
                         {[path |-> cmds.chkAuthKeysFileMakeFile.path,
                           owner |-> cmds.chkAuthKeysFileMakeFile.user, mode |-> "600"]}]
           [] name = "addPubKeyToAuth" ->
                 [h EXCEPT
                    !.files = IF HasFile(h, cmds.addPubKeyToAuth.path) THEN @
                              ELSE @ \cup {[path |-> cmds.addPubKeyToAuth.path,
                                            owner |-> opts.login_user, mode |-> "644"]},
                    !.keys = @ \cup {[path |-> cmds.addPubKeyToAuth.path,
                                      text |-> cmds.addPubKeyToAuth.text]}]
           [] name = "disableRootSsh" -> [h EXCEPT !.root_login = FALSE]
           [] name = "disablePassAuthSsh" -> [h EXCEPT !.pass_auth = FALSE]
           [] name = "restartSshService" -> [h EXCEPT !.restarted = TRUE]
           [] OTHER -> h

\* lines 171-172: the handler sends no command, the host stays as it is
OnFailureHostRollback(h) == [h EXCEPT !.user = FALSE, !.sshdir = FALSE]

OnFailureHost(h) == h

\* lines 239-246 and 177-180: the call; an unbound `targets` raises at line 240
CallConcurrent ==
    /\ pc = "L239"
    /\ IF targets = Unbound
       THEN Raise("UnboundLocalError") /\ UNCHANGED workers
       ELSE /\ workers' = PoolWorkers(Cardinality(targets))
            /\ pc' = "L182"
            /\ UNCHANGED error
    /\ UNCHANGED report
    /\ UNCHANGED mainVars
    /\ UNCHANGED <<sess, probe, rlog, fault, login, host, future, yielded, results_list>>
    /\ UNCHANGED runVars

\* line 182: ProcessPoolExecutor(max_workers=workers) refuses max_workers <= 0
CreatePool ==
    /\ pc = "L182"
    /\ IF workers <= 0
       THEN Raise("ValueError: max_workers must be greater than 0")
       ELSE pc' = "L183" /\ UNCHANGED error
    /\ UNCHANGED report
    /\ UNCHANGED mainVars
    /\ UNCHANGED poolVars
    /\ UNCHANGED runVars

\* line 183: one submit per target
Submit ==
    /\ pc = "L183"
    /\ sess' = [t \in targets |-> "queued"]
    /\ probe' = [t \in targets |-> "unknown"]
    /\ rlog' = [t \in targets |-> <<>>]
    /\ fault' = [t \in targets |-> NoFault]
    /\ login' = [t \in targets |-> <<>>]
    /\ host' \in HostsMet(host, targets)
    /\ future' = [t \in targets |-> Pending]
    /\ pc' = "L185"
    /\ UNCHANGED <<error, report, workers, yielded, results_list>>
    /\ UNCHANGED mainVars
    /\ UNCHANGED runVars

\* line 186: `if future.result():` - a dict with keys is true, None is not
ResultTruthyOnSuccess(r) == r.Status = "Succeeded"

ResultTruthy(r) == r # NoOutcome

\* lines 185-187: as_completed yields a finished future; result() re-raises
\* the future's exception, which leaves the function through the `with`
Collect(t) ==
    /\ pc = "L185"
    /\ t \in targets \ yielded
    /\ future[t].state = "finished"
    /\ IF future[t].exc # ""
       THEN Raise(future[t].exc) /\ UNCHANGED <<yielded, results_list>>
       ELSE /\ yielded' = yielded \cup {t}
            /\ results_list' = IF ResultTruthy(future[t].result)
                               THEN Append(results_list, future[t].result)
                               ELSE results_list
            /\ UNCHANGED <<pc, error>>
    /\ UNCHANGED <<report, workers, sess, probe, rlog, fault, login, host, future>>
    /\ UNCHANGED mainVars
    /\ UNCHANGED runVars

\* line 188: every future was yielded; the pool shuts down, the list is returned
ReturnResults ==
    /\ pc = "L185"
    /\ yielded = targets
    /\ pc' = "L248"
    /\ UNCHANGED <<error, report>>
    /\ UNCHANGED mainVars
    /\ UNCHANGED poolVars
    /\ UNCHANGED runVars

\* line 248
Report ==
    /\ pc = "L248"
    /\ report' = <<results_list>>
    /\ pc' = "done"
    /\ UNCHANGED error
    /\ UNCHANGED mainVars
    /\ UNCHANGED poolVars
    /\ UNCHANGED runVars

----------------------------------------------------------------------------
(* Session Driver: configure_target in a worker process, lines 157-172 *)

Idle == {"queued", "returned", "crashed", "terminated"}

\* the call has started in a worker process and has not returned
Active(t) == sess[t] \notin Idle

NumActive == Cardinality({t \in DOMAIN sess : Active(t)})

Broken == \E t \in DOMAIN sess : sess[t] = "crashed"

\* a worker process takes the call from the queue
Start(t) ==
    /\ pc = "L185"
    /\ ~Broken
    /\ sess[t] = "queued"
    /\ NumActive < workers
    /\ sess' = [sess EXCEPT ![t] = "login"]
    /\ UNCHANGED <<pc, error, report, workers, probe, rlog, fault, login, host, future,
                   yielded, results_list>>
    /\ UNCHANGED mainVars
    /\ UNCHANGED runVars

\* lines 171-172: `except Exception` returns the Failed outcome
OnExceptionOnlyBash(t, exc) ==
    IF exc = "BashException" THEN Returned(Outcome(t, "Failed")) ELSE Raised(exc)

OnException(t, exc) == Returned(Outcome(t, "Failed"))

\* line 170
OnSuccess(t) == Returned(Outcome(t, "Succeeded"))

\* the call returns: the worker hands the result to the future
ReturnRequeueFailed(t, fut) ==
    IF fut = Returned(Outcome(t, "Failed"))
    THEN sess' = [sess EXCEPT ![t] = "login"] /\ UNCHANGED future
    ELSE sess' = [sess EXCEPT ![t] = "returned"] /\ future' = [future EXCEPT ![t] = fut]

Return(t, fut) ==
    /\ sess' = [sess EXCEPT ![t] = "returned"]
    /\ future' = [future EXCEPT ![t] = fut]

\* an exception is raised inside the try block of lines 160-170
Throw(t, exc) ==
    /\ fault' = [fault EXCEPT ![t] = [at |-> sess[t], exc |-> exc]]
    /\ Return(t, OnException(t, exc))

\* what client.connect can do (lines 121-129): a str that is no host address
\* cannot be resolved; every wait of connect is bounded by timeout=5
LoginResults(t) ==
    IF t = PyFalse THEN {"TypeError"}
    ELSE {"ok", "socket.timeout", "AuthenticationException", "SSHException"}

\* lines 121-131: login_ssh has no try, what connect raises leaves it
LoginRaisesNever(r) == FALSE

LoginRaises(r) == r # "ok"

\* line 161: login_ssh
Login(t) ==
    /\ pc = "L185"
    /\ sess[t] = "login"
    /\ \E r \in LoginResults(t) :
          /\ login' = [login EXCEPT ![t] = Append(@, r)]
          /\ IF LoginRaises(r)
             THEN Throw(t, r)
             ELSE sess' = [sess EXCEPT ![t] = "validateUser"] /\ UNCHANGED <<fault, future>>
    /\ UNCHANGED <<pc, error, report, workers, probe, rlog, host, yielded, results_list>>
    /\ UNCHANGED mainVars
    /\ UNCHANGED runVars

\* bash_validate_nonroot_user, lines 136-147: stderr text or unparsable
\* stdout is False, a uid on stdout is True; only ValueError is caught
ProbeResult(r) ==
    IF r = "uid" THEN "present"
    ELSE IF r \in {"stderr", "garbage"} THEN "absent"
    ELSE "unknown"

\* line 162: the guard of createUser
AfterProbeAlwaysCreate(p) == "createUser"

AfterProbe(p) == IF p = "present" THEN "chkSshDirMakeDir" ELSE "createUser"

\* what `id -u user` answers: the uid of an existing user on stdout; for an
\* unknown user no uid, that is an error text on stderr or, where stderr is
\* lost, nothing that parses as a number
ProbeOutcomes(h) == IF h.user THEN {"uid"} ELSE {"stderr", "garbage"}

\* line 162: the step-1 probe.  exec_command may raise (the command is not
\* delivered), and stderr.read() has no timeout: it may never return
ValidateUser(t) ==
    /\ pc = "L185"
    /\ sess[t] = "validateUser"
    /\ \E r \in ProbeOutcomes(host[t]) \cup {"raise", "hang"} :
          CASE r = "raise" ->
                  /\ Throw(t, "SSHException")
                  /\ UNCHANGED <<probe, rlog>>
            [] r = "hang" ->
                  /\ sess' = [sess EXCEPT ![t] = "hung"]
                  /\ rlog' = [rlog EXCEPT ![t] = Append(@, [cmd |-> "validateUser", res |-> r])]
                  /\ UNCHANGED <<probe, fault, future>>
            [] OTHER ->
                  /\ probe' = [probe EXCEPT ![t] = ProbeResult(r)]
                  /\ sess' = [sess EXCEPT ![t] = AfterProbe(ProbeResult(r))]
                  /\ rlog' = [rlog EXCEPT ![t] = Append(@, [cmd |-> "validateUser", res |-> r])]
                  /\ UNCHANGED <<fault, future>>
    /\ UNCHANGED <<pc, error, report, workers, login, host, yielded, results_list>>
    /\ UNCHANGED mainVars
    /\ UNCHANGED runVars

\* lines 153-155: execute_bash raises when the command wrote to stderr
ExecuteBashNeverRaises(r) == FALSE

ExecuteBashRaises(r) == r = "stderr"

\* lines 163-170: the statement after the named step
NextStepNoRestart(name) ==
    IF name \in {"disablePassAuthSsh", "restartSshService"} THEN "return"
    ELSE Steps[StepNo(name) + 1]

NextStep(name) ==
    IF name = "restartSshService" THEN "return" ELSE Steps[StepNo(name) + 1]

FatalSteps == {Steps[i] : i \in 2..Len(Steps)}

\* lines 163-169: one execute_bash call
Exec(t) ==
    /\ pc = "L185"
    /\ sess[t] \in FatalSteps
    /\ \E r \in {"ok", "stderr", "raise", "hang"} :
          CASE r = "raise" ->
                  /\ Throw(t, "SSHException")
                  /\ host' = [host EXCEPT ![t] = OnFailureHost(@)]
                  /\ UNCHANGED rlog
            [] r = "hang" ->
                  /\ sess' = [sess EXCEPT ![t] = "hung"]
                  /\ rlog' = [rlog EXCEPT ![t] = Append(@, [cmd |-> sess[t], res |-> r])]
                  /\ UNCHANGED <<fault, future, host>>
            [] OTHER ->
                  /\ rlog' = [rlog EXCEPT ![t] = Append(@, [cmd |-> sess[t], res |-> r])]
                  /\ IF ExecuteBashRaises(r)
                     THEN /\ Throw(t, "BashException")
                          /\ host' = [host EXCEPT ![t] = OnFailureHost(Effect(@, sess[t], r))]
                     ELSE /\ host' = [host EXCEPT ![t] = Effect(@, sess[t], r)]
                          /\ IF NextStep(sess[t]) = "return"
                             THEN Return(t, OnSuccess(t)) /\ UNCHANGED fault
                             ELSE /\ sess' = [sess EXCEPT ![t] = NextStep(sess[t])]
                                  /\ UNCHANGED <<fault, future>>
    /\ UNCHANGED <<pc, error, report, workers, probe, login, yielded, results_list>>
    /\ UNCHANGED mainVars
    /\ UNCHANGED runVars

\* a worker process dies while it executes a call (out of memory, a fault
\* in native code): the executor marks the pool broken, fails every future
\* that is not done with BrokenProcessPool and terminates the other workers
Crash(t) ==
    /\ pc = "L185"
    /\ Active(t)
    /\ sess[t] # "hung"
    /\ sess' = [u \in DOMAIN sess |->
                   IF u = t THEN "crashed"
                   ELSE IF Active(u) THEN "terminated"
                   ELSE sess[u]]
    /\ future' = [u \in DOMAIN future |->
                     IF future[u].state = "pending"
                     THEN Raised("BrokenProcessPool")
                     ELSE future[u]]
    /\ UNCHANGED <<pc, error, report, workers, probe, rlog, fault, login, host, yielded,
                   results_list>>
    /\ UNCHANGED mainVars
    /\ UNCHANGED runVars

----------------------------------------------------------------------------

Sessions ==
    \/ \E t \in DOMAIN sess : Start(t)
    \/ \E t \in DOMAIN sess : Login(t)
    \/ \E t \in DOMAIN sess : ValidateUser(t)
    \/ \E t \in DOMAIN sess : Exec(t)
    \/ \E t \in DOMAIN sess : Crash(t)

Next ==
    \/ BindTargets
    \/ ChooseKey
    \/ Keygen
    \/ Chmod
    \/ ReadKey
    \/ BuildPlan
    \/ PasswordPrompt
    \/ CallConcurrent
    \/ CreatePool
    \/ Submit
    \/ \E t \in DOMAIN future : Collect(t)
    \/ ReturnResults
    \/ Report
    \/ Sessions

Spec == Init /\ [][Next]_vars

----------------------------------------------------------------------------
(* A fleet larger than the pool: the run over an address file of FleetSize *)
(* hosts, taken up at line 185 when all calls but two are either hung in   *)
(* the step-1 probe, or have failed to log in and been collected.          *)

\* targets of the large fleet
FleetSize == 21

FleetAddr(i) == <<"10", "0", "1", ToString(i)>>

FleetHosts == [rhost |-> Unset, rhost_file |-> HostsPath,
               hosts |-> File([i \in 1..FleetSize |-> FleetAddr(i) \o <<"NL">>])]

AllButTwo == {FleetAddr(i) : i \in 1..(FleetSize - 2)}

InitFleet ==
    /\ opts = Opts(FleetHosts, PlainKey)
    /\ fs = Fs(FleetHosts, PlainKey)
    /\ fs0 = fs
    /\ pc = "L185"
    /\ keygen_calls = <<>>
    /\ targets = BoundTargets(opts, fs)
    /\ ssh_pubkey = SuppliedPubPath(opts.ssh_pubkey)
    /\ pubkey_str = read_pubkey_file(fs[ssh_pubkey].lines).value
    /\ cmds = BashCommands(opts.nonroot_user, pubkey_str)
    /\ error = "none"
    /\ report = <<>>
    /\ workers = PoolWorkers(Cardinality(targets))
    /\ probe = [t \in targets |-> "unknown"]
    /\ host = [t \in targets |-> FreshHost(FALSE)]
    /\ run = 1
    /\ provisioned = {}
    /\ \/ /\ sess = [t \in targets |-> IF t \in AllButTwo THEN "hung" ELSE "queued"]
          /\ login = [t \in targets |-> IF t \in AllButTwo THEN <<"ok">> ELSE <<>>]
          /\ rlog = [t \in targets |->
                        IF t \in AllButTwo THEN <<[cmd |-> "validateUser", res |-> "hang"]>>
                        ELSE <<>>]
          /\ fault = [t \in targets |-> NoFault]
          /\ future = [t \in targets |-> Pending]
          /\ yielded = {}
          /\ results_list = <<>>
       \/ /\ sess = [t \in targets |-> IF t \in AllButTwo THEN "returned" ELSE "queued"]
          /\ login = [t \in targets |->
                         IF t \in AllButTwo THEN <<"socket.timeout">> ELSE <<>>]
          /\ rlog = [t \in targets |-> <<>>]
          /\ fault = [t \in targets |->
                         IF t \in AllButTwo THEN [at |-> "login", exc |-> "socket.timeout"]
                         ELSE NoFault]
          /\ future = [t \in targets |->
                          IF t \in AllButTwo THEN OnException(t, "socket.timeout")
                          ELSE Pending]
          /\ yielded = AllButTwo
          /\ results_list = [i \in 1..(FleetSize - 2) |-> Outcome(FleetAddr(i), "Failed")]

NextFleet ==
    \/ \E t \in DOMAIN future : Collect(t)
    \/ ReturnResults
    \/ Report
    \/ Sessions

SpecFleet == InitFleet /\ [][NextFleet]_vars

----------------------------------------------------------------------------
(* The operator runs the program again with the same command line: a new
   process, the local files and the remote hosts as the run before left them *)

MaxRuns == 2

InSeq(x, q) == \E i \in 1..Len(q) : q[i] = x

\* line 253: main() is entered afresh
Rerun ==
    /\ pc = "done"
    /\ run < MaxRuns
    /\ run' = run + 1
    /\ provisioned' = provisioned \cup
          {t \in DOMAIN rlog : InSeq([cmd |-> "createUser", res |-> "ok"], rlog[t])}
    /\ pc' = "L207"
    /\ fs0' = fs
    /\ keygen_calls' = <<>>
    /\ targets' = Unbound
    /\ ssh_pubkey' = Unset
    /\ pubkey_str' = Unset
    /\ cmds' = NoCmds
    /\ error' = "none"
    /\ report' = <<>>
    /\ workers' = 0
    /\ sess' = NoTargets
    /\ probe' = NoTargets
    /\ rlog' = NoTargets
    /\ fault' = NoTargets
    /\ login' = NoTargets
    /\ future' = NoTargets
    /\ yielded' = {}
    /\ results_list' = <<>>
    /\ UNCHANGED <<opts, fs, host>>

InitRerun ==
    /\ Init
    /\ opts = Opts(PlainHost, PlainKey)
    /\ fs = Fs(PlainHost, PlainKey)

NextRerun ==
    \/ BindTargets
    \/ ChooseKey
    \/ ReadKey
    \/ BuildPlan
    \/ PasswordPrompt
    \/ CallConcurrent
    \/ CreatePool
    \/ Submit
    \/ \E t \in DOMAIN future : Collect(t)
    \/ ReturnResults
    \/ Report
    \/ Sessions
    \/ Rerun

SpecRerun == InitRerun /\ [][NextRerun]_vars

----------------------------------------------------------------------------
(* Properties *)

Submitted == DOMAIN sess

\* configure_target_concurrent has returned its list (line 188)
ListReturned == pc = "L248" \/ (pc = "done" /\ report # <<>>)

ResultTargets == {results_list[i].Target : i \in 1..Len(results_list)}

\* C1: when configure_target_concurrent returns, its list holds exactly one
\* outcome per input target: every target appears, none twice, and no
\* outcome names anything that was not a target.
C1_OneOutcomePerTarget ==
    ListReturned =>
        /\ Len(results_list) = Cardinality(targets)
        /\ ResultTargets = targets
        /\ \A i, j \in 1..Len(results_list) :
              results_list[i].Target = results_list[j].Target => i = j

\* C1 witness: the list was returned for two targets, one Succeeded, one Failed
C1_Witness ==
    /\ pc = "L248"
    /\ Cardinality(targets) = 2
    /\ \E i, j \in 1..Len(results_list) :
          results_list[i].Status = "Succeeded" /\ results_list[j].Status = "Failed"

\* C2: over N targets, the calls that have started and not returned never
\* number more than min(20, N).
C2_ConcurrencyCap ==
    targets # Unbound =>
        NumActive <= (IF Cardinality(targets) < 20 THEN Cardinality(targets) ELSE 20)

\* C2 witness: more than 20 targets, 20 calls active, one still queued
C2_Witness ==
    /\ targets # Unbound
    /\ Cardinality(targets) > 20
    /\ NumActive = 20
    /\ \E t \in Submitted : sess[t] = "queued"

\* C3: whatever happens in the session of another target (a hang, a crash,
\* an exception), the session of a target is not cancelled and the outcome
\* the orchestrator gets for it is its own: a session that did not crash
\* itself is never terminated and its future never carries an exception.
C3_SessionsIsolated ==
    \A b \in Submitted :
        sess[b] # "crashed" => (sess[b] # "terminated" /\ future[b].exc = "")

\* C4: configure_target never raises: whenever an exception was raised inside
\* the call (connect timeout, authentication failure, an error while running
\* the probe, an error in steps 2 to 8) the call has returned, and its future
\* holds the outcome {Target: its target, Status: Failed} and no exception.
C4_NeverRaises ==
    \A t \in Submitted :
        fault[t] # NoFault =>
            /\ sess[t] = "returned"
            /\ future[t].state = "finished"
            /\ future[t].exc = ""
            /\ future[t].result = [Target |-> t, Status |-> "Failed"]

\* C4 witness: one call failed at login, another by an exception raised by
\* the probe's exec_command
C4_Witness ==
    \E t, u \in Submitted :
        /\ fault[t] = [at |-> "login", exc |-> "AuthenticationException"]
        /\ fault[u] = [at |-> "validateUser", exc |-> "SSHException"]

\* C5: once a session has been opened the run ends with a report: no failure,
\* hang or crash of a target keeps main from printing the outcomes.
C5_ReportOnceSessionsOpened ==
    (pc = "done" /\ \E t \in Submitted : sess[t] # "queued") => report # <<>>

\* C6: an empty target set makes the run end without error, with an empty report.
C6_EmptySetEmptyReport ==
    (targets = {} /\ pc = "done") => (error = "none" /\ report = <<<<>>>>)

MalformedRhost == Truthy(opts.rhost) /\ ~IsAddress(opts.rhost)

FileMode == ~Truthy(opts.rhost) /\ isfile(fs, opts.rhost_file)

\* C7: a malformed --rhost ends the run with InvalidAddress before any call
\* is submitted for it and without a reported outcome; the malformed lines
\* of an address file are dropped and the valid ones are the targets.
C7_MalformedAddress ==
    /\ MalformedRhost =>
          /\ Submitted = {}
          /\ report = <<>>
          /\ pc = "done" => error = "InvalidAddress"
    /\ (FileMode /\ targets # Unbound) =>
          LET lines == fs[opts.rhost_file].lines
          IN  /\ \A t \in targets : IsAddress(t)
              /\ \A i \in 1..Len(lines) :
                    IsAddress(LineIp(lines[i])) => LineIp(lines[i]) \in targets

KeyLines == fs[ssh_pubkey].lines

\* C8: a public-key file without an ssh-rsa line (an empty file included)
\* stops the run with the MalformedPublicKey error before the command plan is
\* built; a file with such a line gives that line as the key.
C8_PublicKey ==
    /\ pubkey_str # Unset =>
          \E i \in 1..Len(KeyLines) :
              HasRsa(KeyLines[i]) /\ pubkey_str = StripWS(KeyLines[i])
    /\ error = "BashException: no public key" =>
          \A i \in 1..Len(KeyLines) : ~HasRsa(KeyLines[i])

NewKeyRequested == ~Truthy(opts.ssh_pubkey)


\* C9: a new key requested at a path where the key file already exists:
\* ssh-keygen is never invoked on that path, the file stays as it was, no
\* call is submitted, and the run ends with the KeyFileExists error.
C9_NoOverwrite ==
    (NewKeyRequested /\ isfile(fs0, opts.ssh_new_key)) =>
        /\ ~InSeq(opts.ssh_new_key, keygen_calls)
        /\ fs[opts.ssh_new_key] = fs0[opts.ssh_new_key]
        /\ Submitted = {}
        /\ pc = "done" => error = "BashException: already exists"

\* C10: on one target the commands arrive in the fixed order of the eight
\* steps, each at most once; a command is sent only after the one before it
\* finished, and after a step 2 to 8 that reported an error no command is
\* sent at all.
C10_StepsInOrder ==
    \A t \in Submitted :
        /\ \A i, j \in 1..Len(rlog[t]) :
              i < j => StepNo(rlog[t][i].cmd) < StepNo(rlog[t][j].cmd)
        /\ \A i \in 1..(Len(rlog[t]) - 1) :
              /\ rlog[t][i].res # "hang"
              /\ rlog[t][i].cmd \in FatalSteps => rlog[t][i].res = "ok"

\* C10 witness: one target received all eight steps, another stopped at the
\* error of install-pubkey
C10_Witness ==
    \E t, u \in Submitted :
        /\ Len(rlog[t]) = 8
        /\ sess[u] = "returned"
        /\ rlog[u] # <<>>
        /\ rlog[u][Len(rlog[u])] = [cmd |-> "addPubKeyToAuth", res |-> "stderr"]

\* C11: a failure of the step-1 probe of any kind (error text, unparsable
\* output, an error raised while the probe command is executed) counts as
\* 'user absent': the session goes on to create-user and is never ended by
\* the probe.
C11_ProbeFailureMeansAbsent ==
    \A t \in Submitted :
        /\ fault[t].at # "validateUser"
        /\ (rlog[t] # <<>> /\ rlog[t][1].res \in {"stderr", "garbage"}) =>
              /\ probe[t] = "absent"
              /\ Len(rlog[t]) > 1 => rlog[t][2].cmd = "createUser"

\* C13: a target whose login failed has the outcome Failed and received no
\* command, the probe included.
C13_LoginFailureNoSteps ==
    \A t \in Submitted :
        (login[t] # <<>> /\ login[t][1] # "ok") =>
            /\ rlog[t] = <<>>
            /\ probe[t] = "unknown"
            /\ sess[t] = "returned"
            /\ future[t] = Returned(Outcome(t, "Failed"))
            /\ report # <<>> => InSeq(Outcome(t, "Failed"), report[1])

\* C13 witness: a report was printed for one target whose connect timed out
\* and one whose authentication was refused
C13_Witness ==
    \E t, u \in Submitted :
        /\ login[t] = <<"socket.timeout">>
        /\ login[u] = <<"AuthenticationException">>
        /\ report # <<>>

\* C15: in one run a target is logged into at most once and receives each
\* step at most once; a call that returned Failed stays returned.
C15_NoRetries ==
    \A t \in Submitted :
        /\ Len(login[t]) <= 1
        /\ \A i, j \in 1..Len(rlog[t]) : rlog[t][i].cmd = rlog[t][j].cmd => i = j
        /\ sess[t] = "returned" => Len(login[t]) = 1
        /\ future[t] = Returned(Outcome(t, "Failed")) => sess[t] = "returned"

\* C15 witness: the run is over with one target Failed at login and the other
\* Failed at a step
C15_Witness ==
    \E t, u \in Submitted :
        /\ pc = "done"
        /\ fault[t].at = "login"
        /\ fault[u].at = "disableRootSsh"
        /\ Len(login[u]) = 1

\* C12: create-user is sent in a session exactly when the probe of that
\* session reported the user absent; on a host where an earlier run created
\* the user the probe reports it present, create-user is not sent and the
\* session does not fail at user creation.
C12_CreateUserIffAbsent ==
    \A t \in Submitted :
        LET created == \E i \in 1..Len(rlog[t]) : rlog[t][i].cmd = "createUser"
        IN  /\ (created \/ fault[t].at = "createUser") => probe[t] = "absent"
            /\ (probe[t] = "absent" /\ Len(rlog[t]) > 1) => rlog[t][2].cmd = "createUser"
            /\ (probe[t] = "present" /\ Len(rlog[t]) > 1) =>
                  rlog[t][2].cmd = "chkSshDirMakeDir"
            /\ t \in provisioned =>
                  /\ probe[t] # "absent"
                  /\ ~created
                  /\ fault[t].at # "createUser"

\* C12 witness: the second run succeeded on the host where the first run
\* created the user
C12_Witness ==
    \E t \in Submitted :
        /\ run = 2
        /\ t \in provisioned
        /\ probe[t] = "present"
        /\ future[t] = Returned(Outcome(t, "Succeeded"))
        /\ Len(rlog[t]) = 7

\* C14: after a session Succeeded, the file the public key was appended to
\* is the file step 4 ensured: it has mode 600 and belongs to the non-root
\* user.
C14_KeyInEnsuredFile ==
    \A t \in Submitted :
        future[t] = Returned(Outcome(t, "Succeeded")) =>
            /\ cmds.addPubKeyToAuth.path = cmds.chkAuthKeysFileMakeFile.path
            /\ \A k \in host[t].keys :
                  \E f \in host[t].files :
                      /\ f.path = k.path
                      /\ f.mode = "600"
                      /\ f.owner = opts.nonroot_user

\* the line holds the address a and around it only blanks and the newline
Names(line, a) ==
    \E i \in 1..Len(line) :
        /\ i + Len(a) - 1 <= Len(line)
        /\ SubSeq(line, i, i + Len(a) - 1) = a
        /\ \A j \in 1..Len(line) : (j < i \/ j > i + Len(a) - 1) => line[j] \in {"SP", "NL"}

HostsFileLines == fs[opts.rhost_file].lines

\* C16: an address on one or more lines of the file is one target, with one
\* session and one outcome; the set built from the targets themselves is the
\* same set.
C16_DedupIdempotent ==
    (FileMode /\ targets # Unbound) =>
        /\ \A a \in {AddrA, AddrB} :
              (\E i \in 1..Len(HostsFileLines) : Names(HostsFileLines[i], a)) =>
                  /\ a \in targets
                  /\ {t \in targets : Names(t, a)} = {a}
                  /\ a \in Submitted => Len(login[a]) <= 1
                  /\ Cardinality({i \in 1..Len(results_list) :
                                     Names(results_list[i].Target, a)}) <= 1
                  /\ ListReturned => \E i \in 1..Len(results_list) : results_list[i].Target = a
        /\ pc = "L213" => \A t, u \in targets : generate_list_from_file(<<t, u>>) = {t, u}

\* C16 witness: the file lists one address on two lines in two spellings and
\* the report holds its single outcome
C16_Witness ==
    /\ FileMode
    /\ HostsFileLines = <<AddrA \o <<"NL">>, <<"SP">> \o AddrA \o <<"SP", "NL">>>>
    /\ report # <<>>
    /\ Len(report[1]) = 1
    /\ login[AddrA] = <<"ok">>

Sent(t) == {rlog[t][i].cmd : i \in 1..Len(rlog[t])}

\* C17: a call returns Succeeded exactly when the login succeeded and every
\* command sent (steps 3 to 8, and create-user when the probe said absent)
\* finished without error, restart-sshd last; every other returned call is
\* Failed.
C17_SucceededIff ==
    \A t \in Submitted :
        sess[t] = "returned" =>
            /\ future[t] \in {Returned(Outcome(t, "Succeeded")), Returned(Outcome(t, "Failed"))}
            /\ future[t] = Returned(Outcome(t, "Succeeded")) <=>
                  /\ login[t] = <<"ok">>
                  /\ probe[t] \in {"present", "absent"}
                  /\ Sent(t) = {Steps[i] : i \in 3..8} \cup {"validateUser"}
                                 \cup (IF probe[t] = "absent" THEN {"createUser"} ELSE {})
                  /\ \A i \in 2..Len(rlog[t]) : rlog[t][i].res = "ok"
                  /\ rlog[t][Len(rlog[t])].cmd = "restartSshService"

\* C17 witness: one target Succeeded without create-user, the other returned
\* Failed at the restart of sshd
C17_Witness ==
    \E t, u \in Submitted :
        /\ future[t] = Returned(Outcome(t, "Succeeded"))
        /\ "createUser" \notin Sent(t)
        /\ future[u] = Returned(Outcome(u, "Failed"))
        /\ InSeq([cmd |-> "restartSshService", res |-> "stderr"], rlog[u])

\* the change of the named step is in place on the host
Applied(h, name) ==
    CASE name = "createUser" -> h.user
      [] name = "chkSshDirMakeDir" -> h.sshdir
      [] name = "chkAuthKeysFileMakeFile" -> HasFile(h, cmds.chkAuthKeysFileMakeFile.path)
      [] name = "addPubKeyToAuth" ->
            [path |-> cmds.addPubKeyToAuth.path, text |-> pubkey_str] \in h.keys
      [] name = "disableRootSsh" -> ~h.root_login
      [] name = "disablePassAuthSsh" -> ~h.pass_auth
      [] name = "restartSshService" -> h.restarted
      [] OTHER -> TRUE

\* C18: when a step of a session fails the call returns Failed, what the
\* steps before it changed on the host is still in place, and no command
\* follows the failed one.
C18_NoRollback ==
    \A t \in Submitted :
        fault[t].at \in FatalSteps =>
            /\ future[t] = Returned(Outcome(t, "Failed"))
            /\ \A i \in 1..Len(rlog[t]) :
                  /\ rlog[t][i].res = "ok" => Applied(host[t], rlog[t][i].cmd)
                  /\ StepNo(rlog[t][i].cmd) <= StepNo(fault[t].at)
                  /\ rlog[t][i].cmd = fault[t].at => i = Len(rlog[t])

\* C18 witness: the run ended, a target failed at install-pubkey after
\* create-user had created the user
C18_Witness ==
    \E t \in Submitted :
        /\ pc = "done"
        /\ fault[t] = [at |-> "addPubKeyToAuth", exc |-> "BashException"]
        /\ InSeq([cmd |-> "createUser", res |-> "ok"], rlog[t])
        /\ host[t].user /\ host[t].sshdir

\* C19: when --rhost_file names no existing file no target set is bound: no
\* call is submitted, no report is printed, and the run ends with the error
\* of the unbound name, raised after the key was read, the commands were
\* built and the password was asked for.
C19_MissingHostsFile ==
    (~Truthy(opts.rhost) /\ ~isfile(fs0, opts.rhost_file)) =>
        /\ targets = Unbound
        /\ Submitted = {}
        /\ report = <<>>
        /\ pc \notin {"L182", "L183", "L185", "L248"}
        /\ pc = "done" => error # "none"
        /\ error = "UnboundLocalError" => (pubkey_str # Unset /\ cmds # NoCmds)

\* C19 witness: a run with a missing address file has ended
C19_Witness ==
    /\ ~Truthy(opts.rhost)
    /\ Truthy(opts.rhost_file)
    /\ ~isfile(fs0, opts.rhost_file)
    /\ pc = "done"
    /\ error = "UnboundLocalError"

====
